---------------------------- MODULE Spec2Model ----------------------------
(* Model of CM-Processor/cm_processor.py: the column resolver, the         *)
(* collector discovery, the STAP status aggregator, the aggregation        *)
(* failure aggregator and the main driver with its working folders.        *)
(*                                                                         *)
(* Text is a sequence of one-character strings, so that lower(), strip(),  *)
(* the `in` substring test and the code-point ordering used by sort() are  *)
(* computed character by character as Python computes them.               *)
EXTENDS Integers, Sequences, FiniteSets, TLC

VARIABLES
  df_columns,      \* find_column: df.columns of the dataset passed in
  keywords,        \* find_column: the alias list passed in
  found,           \* find_column: returned column (index in df.columns, 0 = None)
  cm_folder,       \* extract_collectors: the tables of cm_folder, in iterdir order
  collectors,      \* extract_collectors: the returned list
  stap_folder,     \* process_stap_status: the tables of folder, in iterdir order
  records,         \* process_stap_status: the rows of the returned df_all
  stap_sum,        \* process_stap_status: the returned summary dict
  agg_tree,        \* analyze_aggregation_errors: collector subfolder -> tables
  agg_collectors,  \* analyze_aggregation_errors: the collectors argument
  issues,          \* analyze_aggregation_errors: the returned list
  returned,        \* names of the functions that have returned
  pc,              \* main: position in main()
  disk,            \* main: the files under CM/, each tagged with the run that wrote it
  subdirs,         \* main: the per-collector subfolders that exist under CM/
  docx_installed,  \* main: whether `from docx import Document` succeeded
  main_collectors, \* main: the local variable collectors
  reports,         \* main: stap_df, stap_sum and agg_issues handed to the writers
  log              \* main: the calls main() has made so far in this run

findVars == <<df_columns, keywords, found>>
collVars == <<cm_folder, collectors>>
stapVars == <<stap_folder, records, stap_sum>>
aggVars == <<agg_tree, agg_collectors, issues>>
mainVars == <<pc, disk, subdirs, docx_installed, main_collectors, reports, log>>
vars == <<findVars, collVars, stapVars, aggVars, returned, mainVars>>

---------------------------------------------------------------------------
(* Bounds of the model.                                                    *)
MaxCols == 3   \* columns of a dataset handed to find_column
MaxFiles == 2   \* files in one folder
MaxRows == 2   \* rows over all the tables one call reads
MaxPlaced == 1  \* files the operator drops into one folder at a prompt

---------------------------------------------------------------------------
(* Python text: str.lower, str.strip, `k in s`, and str comparison.        *)

Ord ==
    "\t" :> 9 @@ " " :> 32 @@ "-" :> 45 @@ "." :> 46 @@ "/" :> 47 @@
    "0" :> 48 @@ "1" :> 49 @@ "2" :> 50 @@ "3" :> 51 @@ "4" :> 52 @@
    "5" :> 53 @@ "6" :> 54 @@ "7" :> 55 @@ "8" :> 56 @@ "9" :> 57 @@
    ":" :> 58 @@ "A" :> 65 @@ "B" :> 66 @@ "C" :> 67 @@ "D" :> 68 @@
    "E" :> 69 @@ "F" :> 70 @@ "G" :> 71 @@ "H" :> 72 @@ "I" :> 73 @@
    "J" :> 74 @@ "K" :> 75 @@ "L" :> 76 @@ "M" :> 77 @@ "N" :> 78 @@
    "O" :> 79 @@ "P" :> 80 @@ "Q" :> 81 @@ "R" :> 82 @@ "S" :> 83 @@
    "T" :> 84 @@ "U" :> 85 @@ "V" :> 86 @@ "W" :> 87 @@ "X" :> 88 @@
    "Y" :> 89 @@ "Z" :> 90 @@ "_" :> 95 @@ "a" :> 97 @@ "b" :> 98 @@
    "c" :> 99 @@ "d" :> 100 @@ "e" :> 101 @@ "f" :> 102 @@ "g" :> 103 @@
    "h" :> 104 @@ "i" :> 105 @@ "j" :> 106 @@ "k" :> 107 @@ "l" :> 108 @@
    "m" :> 109 @@ "n" :> 110 @@ "o" :> 111 @@ "p" :> 112 @@ "q" :> 113 @@
    "r" :> 114 @@ "s" :> 115 @@ "t" :> 116 @@ "u" :> 117 @@ "v" :> 118 @@
    "w" :> 119 @@ "x" :> 120 @@ "y" :> 121 @@ "z" :> 122

Whitespace == {" ", "\t"}

LowerChar(c) ==
  IF Ord[c] >= 65 /\ Ord[c] <= 90
  THEN CHOOSE d \in DOMAIN Ord : Ord[d] = Ord[c] + 32
  ELSE c

Lower(s) == [i \in 1..Len(s) |-> LowerChar(s[i])]

Strip(s) ==
  LET keep == {i \in 1..Len(s) : s[i] \notin Whitespace}
  IN IF keep = {} THEN <<>>
     ELSE LET lo == CHOOSE i \in keep : \A j \in keep : i <= j
              hi == CHOOSE i \in keep : \A j \in keep : i >= j
          IN SubSeq(s, lo, hi)

\* Python `k in s` for two strings.
Contains(k, s) ==
  \E i \in 0..(Len(s) - Len(k)) : SubSeq(s, i + 1, i + Len(k)) = k

\* any(k in s for k in kws)
ContainsAny(kws, s) == \E i \in 1..Len(kws) : Contains(kws[i], s)

\* Python a < b on str: code point by code point, a proper prefix is smaller.
RECURSIVE StrLess(_, _)
StrLess(a, b) ==
  IF b = <<>> THEN FALSE
  ELSE IF a = <<>> THEN TRUE
  ELSE IF Ord[Head(a)] # Ord[Head(b)] THEN Ord[Head(a)] < Ord[Head(b)]
  ELSE StrLess(Tail(a), Tail(b))

---------------------------------------------------------------------------
(* Configuration tables of the script.                                     *)

ACTIVE_KEYWORDS == << <<"a", "c", "t", "i", "v", "e">>, <<"u", "p">>, <<"r", "u", "n", "n", "i", "n", "g">>, <<"c", "o", "n", "n", "e", "c", "t", "e", "d">>, <<"o", "n", "l", "i", "n", "e">> >>
INACTIVE_KEYWORDS == << <<"i", "n", "a", "c", "t", "i", "v", "e">>, <<"d", "o", "w", "n">>, <<"s", "t", "o", "p", "p", "e", "d">>, <<"d", "i", "s", "c", "o", "n", "n", "e", "c", "t", "e", "d">>,
                        <<"o", "f", "f", "l", "i", "n", "e">>, <<"f", "a", "i", "l", "e", "d">>, <<"e", "r", "r", "o", "r">> >>
SUCCESS_KEYWORDS == << <<"s", "u", "c", "c", "e", "s", "s">>, <<"d", "o", "n", "e">>, <<"c", "o", "m", "p", "l", "e", "t", "e", "d">>, <<"o", "k">> >>

---------------------------------------------------------------------------
(* Tables as pandas hands them over: a cell read from a blank field is     *)
(* NaN, any other cell carries its text; str() of NaN is "nan".            *)

NaN == [kind |-> "nan", text |-> <<>>]
Text(s) == [kind |-> "text", text |-> s]

\* str(row.get(col, ""))
PyStr(cell) == IF cell.kind = "nan" THEN <<"n", "a", "n">> ELSE cell.text

\* df.empty
IsEmptyDf(df) == Len(df.columns) = 0 \/ Len(df.rows) = 0

---------------------------------------------------------------------------
(* find_column                                                             *)

\* find_column with the two loops exchanged: the alias list decides.
find_column_aliasfirst(columns, kws) ==
  LET hits == {p \in (1..Len(kws)) \X (1..Len(columns)) :
                 Contains(kws[p[1]], Lower(columns[p[2]]))}
  IN IF hits = {} THEN 0
     ELSE LET k == CHOOSE k \in 1..Len(kws) :
                     /\ \E c \in 1..Len(columns) : <<k, c>> \in hits
                     /\ \A p \in hits : k <= p[1]
          IN CHOOSE c \in 1..Len(columns) :
               /\ <<k, c>> \in hits
               /\ \A p \in hits : p[1] = k => c <= p[2]

\* for c in df.columns: for k in keywords: if k in str(c).lower(): return c
RECURSIVE find_column_from(_, _, _)
find_column_from(columns, kws, c) ==
  IF c > Len(columns) THEN 0
  ELSE IF ContainsAny(kws, Lower(columns[c])) THEN c
  ELSE find_column_from(columns, kws, c + 1)

find_column(columns, kws) == find_column_from(columns, kws, 1)

---------------------------------------------------------------------------
(* extract_collectors                                                      *)

RECURSIVE Concat(_)
Concat(ss) == IF ss = <<>> THEN <<>> ELSE Head(ss) \o Concat(Tail(ss))

Range(s) == {s[i] : i \in 1..Len(s)}

\* sorted(S) for a set of str
RECURSIVE sorted(_)
sorted(S) ==
  IF S = {} THEN <<>>
  ELSE LET m == CHOOSE x \in S : \A y \in S \ {x} : StrLess(x, y)
       IN <<m>> \o sorted(S \ {m})

\* The unit names one table makes the loop add, in row order.
collector_adds_of(df) ==
  IF IsEmptyDf(df) THEN <<>>
  ELSE LET unit_name_col == find_column(df.columns, << <<"u", "n", "i", "t", " ", "n", "a", "m", "e">> >>)
           unit_type_col == find_column(df.columns, << <<"u", "n", "i", "t", " ", "t", "y", "p", "e">> >>)
           unit_type(row) == Lower(PyStr(row[unit_type_col]))
           unit_name(row) == Strip(PyStr(row[unit_name_col]))
           hit(row) == Contains(<<"c", "o", "l", "l", "e", "c", "t", "o", "r">>, unit_type(row)) /\ unit_name(row) # <<>>
       IN IF unit_name_col = 0 \/ unit_type_col = 0 THEN <<>>
          ELSE LET kept == SelectSeq(df.rows, hit)
               IN [i \in 1..Len(kept) |-> unit_name(kept[i])]

collector_adds(folder) ==
  Concat([f \in 1..Len(folder) |-> collector_adds_of(folder[f])])

\* extract_collectors returning the names in the order met, unsorted.
extract_collectors_unsorted(folder) == collector_adds(folder)

extract_collectors(folder) == sorted(Range(collector_adds(folder)))

---------------------------------------------------------------------------
(* process_stap_status                                                     *)

\* Classification that also consults INACTIVE_KEYWORDS.
is_active_unless_inactive(status) ==
  /\ ContainsAny(ACTIVE_KEYWORDS, Lower(status))
  /\ ~ContainsAny(INACTIVE_KEYWORDS, Lower(status))

\* any(k in status_lower for k in ACTIVE_KEYWORDS)
is_active_of(status) == ContainsAny(ACTIVE_KEYWORDS, Lower(status))

stap_records_of(df) ==
  IF IsEmptyDf(df) THEN <<>>
  ELSE LET status_col == find_column(df.columns, << <<"s", "t", "a", "t", "u", "s">> >>)
           host_col == find_column(df.columns,
                         << <<"s", "o", "f", "t", "w", "a", "r", "e", " ", "s", "t", "a", "p", " ", "h", "o", "s", "t">>, <<"s", "t", "a", "p", " ", "h", "o", "s", "t">>, <<"h", "o", "s", "t">> >>)
           ver_col == find_column(df.columns,
                         << <<"r", "e", "v", "i", "s", "i", "o", "n">>, <<"v", "e", "r", "s", "i", "o", "n">>, <<"s", "-", "t", "a", "p", " ", "r", "e", "v", "i", "s", "i", "o", "n">>,
                            <<"s", "t", "a", "p", " ", "r", "e", "v", "i", "s", "i", "o", "n">> >>)
           status(row) == Strip(PyStr(row[status_col]))
           host(row) == IF host_col # 0 THEN Strip(PyStr(row[host_col]))
                        ELSE <<"N", "/", "A">>
           version(row) == IF ver_col # 0 THEN Strip(PyStr(row[ver_col]))
                           ELSE <<"U", "n", "d", "e", "f", ".">>
           emitted(row) == status(row) # <<>>
       IN IF status_col = 0 THEN <<>>
          ELSE LET kept == SelectSeq(df.rows, emitted)
               IN [i \in 1..Len(kept) |->
                     [host |-> host(kept[i]), status |-> status(kept[i]),
                      version |-> version(kept[i]),
                      is_active |-> is_active_of(status(kept[i]))]]

stap_records(folder) ==
  Concat([f \in 1..Len(folder) |-> stap_records_of(folder[f])])

\* A summary whose inactive count is taken from the keyword matches.
stap_summary_by_keyword(recs) ==
  [active |-> Cardinality({i \in DOMAIN recs : recs[i].is_active}),
   inactive |-> Cardinality({i \in DOMAIN recs :
                  ContainsAny(INACTIVE_KEYWORDS, Lower(recs[i].status))}),
   total |-> Len(recs)]

\* if not records: all zeros; else the rows of df_all counted by is_active.
stap_summary(recs) ==
  IF recs = <<>> THEN [active |-> 0, inactive |-> 0, total |-> 0]
  ELSE [active |-> Cardinality({i \in DOMAIN recs : recs[i].is_active = TRUE}),
        inactive |-> Cardinality({i \in DOMAIN recs : recs[i].is_active = FALSE}),
        total |-> Len(recs)]

process_stap_status(folder) ==
  [df |-> stap_records(folder), sum |-> stap_summary(stap_records(folder))]

---------------------------------------------------------------------------
(* analyze_aggregation_errors                                              *)

\* Success test by equality with a keyword instead of containment.
is_success_exact(status_val) ==
  \E i \in 1..Len(SUCCESS_KEYWORDS) : SUCCESS_KEYWORDS[i] = Lower(status_val)

\* any(ok_word in status_val.lower() for ok_word in SUCCESS_KEYWORDS)
is_success_of(status_val) == ContainsAny(SUCCESS_KEYWORDS, Lower(status_val))

issues_of(collector, df) ==
  IF IsEmptyDf(df) THEN <<>>
  ELSE LET act_col == find_column(df.columns,
                        << <<"a", "c", "t", "i", "v", "i", "t", "y", " ", "t", "y", "p", "e">>, <<"a", "c", "t", "i", "v", "i", "t", "y">>, <<"p", "r", "o", "c", "e", "s", "s">> >>)
           status_col == find_column(df.columns,
                        << <<"s", "t", "a", "t", "u", "s">>, <<"e", "x", "e", "c", "u", "t", "i", "o", "n", " ", "s", "t", "a", "t", "u", "s">> >>)
           date_col == find_column(df.columns,
                        << <<"s", "t", "a", "r", "t", " ", "t", "i", "m", "e">>, <<"r", "u", "n", " ", "t", "i", "m", "e">>, <<"t", "i", "m", "e", "s", "t", "a", "m", "p">>, <<"d", "a", "t", "e">> >>)
           status_val(row) == Strip(PyStr(row[status_col]))
           activity_val(row) == Strip(PyStr(row[act_col]))
           date_val(row) == IF date_col # 0 THEN Strip(PyStr(row[date_col]))
                            ELSE <<"U", "n", "d", "e", "f", ".", " ", "D", "a", "t", "e">>
           failed(row) == /\ status_val(row) # <<>>
                          /\ activity_val(row) # <<>>
                          /\ ~is_success_of(status_val(row))
       IN IF act_col = 0 \/ status_col = 0 THEN <<>>
          ELSE LET kept == SelectSeq(df.rows, failed)
               IN [i \in 1..Len(kept) |->
                     [collector |-> collector,
                      activity |-> activity_val(kept[i]),
                      status |-> status_val(kept[i]),
                      date |-> date_val(kept[i])]]

\* The issues appended while one collector's subfolder is read.
issues_of_collector(tree, collector) ==
  IF collector \notin DOMAIN tree THEN <<>>
  ELSE Concat([f \in 1..Len(tree[collector]) |->
                 issues_of(collector, tree[collector][f])])

\* The sort key (x['collector'], x['date']) compared as Python compares tuples.
KeyLess(a, b) ==
  \/ StrLess(a.collector, b.collector)
  \/ a.collector = b.collector /\ StrLess(a.date, b.date)

\* Place x in a list already in descending key order, after its equals
\* (list.sort is stable, also with reverse=True).
RECURSIVE insert_desc(_, _)
insert_desc(x, s) ==
  IF s = <<>> THEN <<x>>
  ELSE IF KeyLess(Head(s), x) THEN <<x>> \o s
  ELSE <<Head(s)>> \o insert_desc(x, Tail(s))

\* Ascending placement: the sort without reverse=True.
RECURSIVE insert_asc(_, _)
insert_asc(x, s) ==
  IF s = <<>> THEN <<x>>
  ELSE IF KeyLess(x, Head(s)) THEN <<x>> \o s
  ELSE <<Head(s)>> \o insert_asc(x, Tail(s))

RECURSIVE sort_ascending(_)
sort_ascending(s) ==
  IF s = <<>> THEN <<>>
  ELSE insert_asc(s[Len(s)], sort_ascending(SubSeq(s, 1, Len(s) - 1)))

\* issues.sort(key=lambda x: (x['collector'], x['date']), reverse=True);
\* both keys are str, so the comparison cannot raise.
RECURSIVE sort_issues(_)
sort_issues(s) ==
  IF s = <<>> THEN <<>>
  ELSE insert_desc(s[Len(s)], sort_issues(SubSeq(s, 1, Len(s) - 1)))

accumulated_issues(tree, colls) ==
  Concat([c \in 1..Len(colls) |-> issues_of_collector(tree, colls[c])])

analyze_aggregation_errors(tree, colls) ==
  sort_issues(accumulated_issues(tree, colls))

---------------------------------------------------------------------------
(* The working folders of main().                                          *)

FOLDER_CM == "Central Management"
FOLDER_STAP == "STAP status"
FOLDER_AGGREGATION == "Aggregation Processes"
FOLDER_QUALITY == "Collection Quality"
FOLDER_OUTPUT == "output"
BASE_SUBFOLDERS == <<FOLDER_CM, FOLDER_STAP, FOLDER_AGGREGATION, FOLDER_QUALITY>>

EmptyDf == [columns |-> <<>>, rows |-> <<>>]

\* A file under CM/: dir is the folder, sub the per-collector subfolder
\* (<<>> for the folder itself), run tells which run put it there, table
\* what read_table returns for it.
File(dir, sub, name, run, table) ==
  [dir |-> dir, sub |-> sub, name |-> name, run |-> run, table |-> table]

Listing(files, dir, sub) == {f \in files : f.dir = dir /\ f.sub = sub}

\* folder.iterdir() yields the files in an order the OS picks.
Orderings(S) ==
  {o \in [1..Cardinality(S) -> S] : \A i, j \in DOMAIN o : o[i] = o[j] => i = j}

TablesOf(o) == [i \in 1..Len(o) |-> o[i].table]

\* What is left of `files` after clean_folder_contents(folder, recursive):
\* the files of the folder are unlinked, those of its immediate subfolders
\* too when recursive; the subfolders themselves stay.
clean_folder_contents(files, folder, recursive) ==
  {f \in files :
     \/ f.dir # folder
     \/ f.sub # <<>> /\ ~recursive}

---------------------------------------------------------------------------
(* Input tables the calls are checked on.                                  *)

\* A layout is the header of an export and the rows such an export may hold.
Layout(columns, rows) == [columns |-> columns, rows |-> rows]

\* The tables over the layouts with 1..nr rows, and the table of a file
\* that read_table could not read.
TablesUpTo(layouts, nr) ==
  (IF nr > 0 THEN {EmptyDf} ELSE {}) \cup
  UNION {{[columns |-> L.columns, rows |-> rs] :
            rs \in UNION {[1..k -> L.rows] : k \in 1..nr}} :
         L \in layouts}

\* What a file takes of the row budget: its rows, an unreadable file one.
Weight(t) == IF Len(t.rows) = 0 THEN 1 ELSE Len(t.rows)

\* The folders of at most nf files within a budget of nr rows.
RECURSIVE Folders(_, _, _)
Folders(layouts, nf, nr) ==
  IF nf = 0 THEN {<<>>}
  ELSE {<<>>} \cup
       UNION {{<<t>> \o rest :
                 rest \in Folders(layouts, nf - 1, nr - Weight(t))} :
              t \in TablesUpTo(layouts, nr)}

ColumnNames ==
  {<<"H", "o", "s", "t">>, <<"S", "o", "f", "t", "w", "a", "r", "e", " ", "S", "T", "A", "P", " ", "H", "o", "s", "t">>, <<"S", "t", "a", "t", "u", "s">>, <<"E", "x", "e", "c", "u", "t", "i", "o", "n", " ", "S", "t", "a", "t", "u", "s">>, <<"A", "c", "t", "i", "v", "i", "t", "y", " ", "T", "y", "p", "e">>,
   <<"R", "u", "n", " ", "T", "i", "m", "e">>, <<"U", "n", "i", "t", " ", "N", "a", "m", "e">>, <<"R", "e", "v", "i", "s", "i", "o", "n">>}

AliasLists ==
  {<< <<"u", "n", "i", "t", " ", "n", "a", "m", "e">> >>, << <<"u", "n", "i", "t", " ", "t", "y", "p", "e">> >>, << <<"s", "t", "a", "t", "u", "s">> >>,
   << <<"s", "o", "f", "t", "w", "a", "r", "e", " ", "s", "t", "a", "p", " ", "h", "o", "s", "t">>, <<"s", "t", "a", "p", " ", "h", "o", "s", "t">>, <<"h", "o", "s", "t">> >>,
   << <<"r", "e", "v", "i", "s", "i", "o", "n">>, <<"v", "e", "r", "s", "i", "o", "n">>, <<"s", "-", "t", "a", "p", " ", "r", "e", "v", "i", "s", "i", "o", "n">>, <<"s", "t", "a", "p", " ", "r", "e", "v", "i", "s", "i", "o", "n">> >>,
   << <<"a", "c", "t", "i", "v", "i", "t", "y", " ", "t", "y", "p", "e">>, <<"a", "c", "t", "i", "v", "i", "t", "y">>, <<"p", "r", "o", "c", "e", "s", "s">> >>,
   << <<"s", "t", "a", "t", "u", "s">>, <<"e", "x", "e", "c", "u", "t", "i", "o", "n", " ", "s", "t", "a", "t", "u", "s">> >>,
   << <<"s", "t", "a", "r", "t", " ", "t", "i", "m", "e">>, <<"r", "u", "n", " ", "t", "i", "m", "e">>, <<"t", "i", "m", "e", "s", "t", "a", "m", "p">>, <<"d", "a", "t", "e">> >>}

ColumnLists ==
  {cs \in UNION {[1..n -> ColumnNames] : n \in 0..MaxCols} :
     \A i, j \in DOMAIN cs : cs[i] = cs[j] => i = j}

InventoryLayouts ==
  {Layout(<< <<"U", "n", "i", "t", " ", "N", "a", "m", "e">>, <<"U", "n", "i", "t", " ", "T", "y", "p", "e">> >>,
          {<<Text(<<"C", "o", "l", "l", "e", "c", "t", "o", "r", " ", "B">>), Text(<<"C", "o", "l", "l", "e", "c", "t", "o", "r">>)>>,
           <<Text(<<" ", "C", "o", "l", "l", "e", "c", "t", "o", "r", " ", "A", " ">>), Text(<<"C", "o", "l", "l", "e", "c", "t", "o", "r">>)>>,
           <<Text(<<"C", "o", "l", "l", "e", "c", "t", "o", "r", " ", "A">>), Text(<<"M", "a", "n", "a", "g", "e", "d", " ", "C", "O", "L", "L", "E", "C", "T", "O", "R">>)>>,
           <<Text(<<"X">>), Text(<<"A", "g", "g", "r", "e", "g", "a", "t", "o", "r">>)>>,
           <<Text(<<" ", " ">>), Text(<<"C", "o", "l", "l", "e", "c", "t", "o", "r">>)>>,
           <<NaN, Text(<<"C", "o", "l", "l", "e", "c", "t", "o", "r">>)>>}),
   Layout(<< <<"U", "n", "i", "t", " ", "T", "y", "p", "e">>, <<"H", "o", "s", "t">>, <<"U", "n", "i", "t", " ", "N", "a", "m", "e">> >>,
          {<<Text(<<"C", "o", "l", "l", "e", "c", "t", "o", "r">>), Text(<<"h", "9">>), Text(<<"C", "o", "l", "l", "e", "c", "t", "o", "r", " ", "C">>)>>}),
   Layout(<< <<"T", "y", "p", "e">>, <<"N", "a", "m", "e">> >>,
          {<<Text(<<"C", "o", "l", "l", "e", "c", "t", "o", "r">>), Text(<<"C", "o", "l", "l", "e", "c", "t", "o", "r", " ", "D">>)>>})}

StapLayouts ==
  {Layout(<< <<"S", "-", "T", "A", "P", " ", "H", "o", "s", "t">>, <<"S", "t", "a", "t", "u", "s">>, <<"R", "e", "v", "i", "s", "i", "o", "n">> >>,
          {<<Text(<<"h", "1">>), Text(<<"A", "c", "t", "i", "v", "e">>), Text(<<"v", "1">>)>>,
           <<Text(<<"h", "2">>), Text(<<"I", "n", "a", "c", "t", "i", "v", "e">>), Text(<<"v", "1">>)>>,
           <<Text(<<"h", "3">>), Text(<<" ", "U", "P", " ">>), Text(<<"v", "2">>)>>,
           <<Text(<<"h", "4">>), Text(<<"D", "i", "s", "c", "o", "n", "n", "e", "c", "t", "e", "d">>), Text(<<"v", "2">>)>>,
           <<Text(<<"h", "5">>), Text(<<"D", "o", "w", "n">>), NaN>>,
           <<Text(<<"h", "6">>), Text(<<" ", " ", " ">>), Text(<<"v", "1">>)>>,
           <<Text(<<"h", "7">>), NaN, Text(<<"v", "1">>)>>}),
   Layout(<< <<"S", "t", "a", "t", "u", "s">> >>,
          {<<Text(<<"C", "o", "n", "n", "e", "c", "t", "e", "d">>)>>, <<Text(<<"S", "t", "o", "p", "p", "e", "d">>)>>}),
   Layout(<< <<"H", "o", "s", "t">>, <<"V", "e", "r", "s", "i", "o", "n">> >>,
          {<<Text(<<"h", "8">>), Text(<<"v", "3">>)>>})}

AggregationLayouts ==
  {Layout(<< <<"A", "c", "t", "i", "v", "i", "t", "y", " ", "T", "y", "p", "e">>, <<"S", "t", "a", "t", "u", "s">>, <<"S", "t", "a", "r", "t", " ", "T", "i", "m", "e">> >>,
          {<<Text(<<"P", "u", "r", "g", "e">>), Text(<<"F", "a", "i", "l", "e", "d">>), Text(<<"2", "0", "2", "4", "-", "0", "1", "-", "0", "2">>)>>,
           <<Text(<<"P", "u", "r", "g", "e">>), Text(<<"F", "a", "i", "l", "e", "d">>), Text(<<"2", "0", "2", "4", "-", "0", "1", "-", "0", "3">>)>>,
           <<Text(<<"E", "x", "p", "o", "r", "t">>), Text(<<"S", "u", "c", "c", "e", "s", "s">>), Text(<<"2", "0", "2", "4", "-", "0", "1", "-", "0", "3">>)>>,
           <<Text(<<"A", "r", "c", "h", "i", "v", "e">>), Text(<<"C", "o", "m", "p", "l", "e", "t", "e", "d", " ", "O", "K">>), Text(<<"2", "0", "2", "4", "-", "0", "1", "-", "0", "2">>)>>,
           <<Text(<<"P", "u", "r", "g", "e">>), NaN, Text(<<"2", "0", "2", "4", "-", "0", "1", "-", "0", "2">>)>>,
           <<NaN, Text(<<"F", "a", "i", "l", "e", "d">>), Text(<<"2", "0", "2", "4", "-", "0", "1", "-", "0", "2">>)>>}),
   Layout(<< <<"P", "r", "o", "c", "e", "s", "s">>, <<"E", "x", "e", "c", "u", "t", "i", "o", "n", " ", "S", "t", "a", "t", "u", "s">> >>,
          {<<Text(<<"E", "x", "p", "o", "r", "t">>), Text(<<"E", "r", "r", "o", "r">>)>>,
           <<Text(<<" ", " ">>), Text(<<"E", "r", "r", "o", "r">>)>>,
           <<Text(<<"E", "x", "p", "o", "r", "t">>), Text(<<" ", " ">>)>>}),
   Layout(<< <<"A", "c", "t", "i", "v", "i", "t", "y">>, <<"D", "a", "t", "e">> >>,
          {<<Text(<<"A", "r", "c", "h", "i", "v", "e">>), Text(<<"2", "0", "2", "4", "-", "0", "1", "-", "0", "1">>)>>})}

CollectorA == <<"A">>
CollectorB == <<"B">>

CollectorC == <<"C">>

\* The per-collector subfolders that exist, with their tables: the files of
\* a folder split between the subfolders of A and B.
AggregationTrees(fs) ==
  UNION {{[c \in {CollectorA, CollectorB} |->
             IF c = CollectorA THEN SubSeq(f, 1, k) ELSE SubSeq(f, k + 1, Len(f))] :
            k \in 0..Len(f)} : f \in fs}

---------------------------------------------------------------------------
(* State before any call, per component.                                   *)

NoTree == [c \in {} |-> <<>>]
NoSummary == [active |-> 0, inactive |-> 0, total |-> 0]
NoReports == [stap_df |-> <<>>, stap_sum |-> NoSummary, agg_issues |-> <<>>]

IdleFind == df_columns = <<>> /\ keywords = <<>> /\ found = 0
IdleColl == cm_folder = <<>> /\ collectors = <<>>
IdleStap == stap_folder = <<>> /\ records = <<>> /\ stap_sum = NoSummary
IdleAgg == agg_tree = NoTree /\ agg_collectors = <<>> /\ issues = <<>>
IdleMain ==
  /\ pc = "idle" /\ disk = {} /\ subdirs = {} /\ docx_installed = FALSE
  /\ main_collectors = <<>> /\ reports = NoReports /\ log = <<>>

---------------------------------------------------------------------------
(* One call of each function of the engine.                                *)

FindColumn ==
  /\ "find_column" \notin returned
  /\ found' = find_column(df_columns, keywords)
  /\ returned' = returned \cup {"find_column"}
  /\ UNCHANGED <<df_columns, keywords, collVars, stapVars, aggVars, mainVars>>

ExtractCollectors ==
  /\ "extract_collectors" \notin returned
  /\ collectors' = extract_collectors(cm_folder)
  /\ returned' = returned \cup {"extract_collectors"}
  /\ UNCHANGED <<cm_folder, findVars, stapVars, aggVars, mainVars>>

ProcessStapStatus ==
  /\ "process_stap_status" \notin returned
  /\ LET r == process_stap_status(stap_folder)
     IN records' = r.df /\ stap_sum' = r.sum
  /\ returned' = returned \cup {"process_stap_status"}
  /\ UNCHANGED <<stap_folder, findVars, collVars, aggVars, mainVars>>

AnalyzeAggregationErrors ==
  /\ "analyze_aggregation_errors" \notin returned
  /\ issues' = analyze_aggregation_errors(agg_tree, agg_collectors)
  /\ returned' = returned \cup {"analyze_aggregation_errors"}
  /\ UNCHANGED <<agg_tree, agg_collectors, findVars, collVars, stapVars, mainVars>>

InitFind ==
  /\ df_columns \in ColumnLists /\ keywords \in AliasLists /\ found = 0
  /\ IdleColl /\ IdleStap /\ IdleAgg /\ IdleMain /\ returned = {}

InitColl ==
  /\ cm_folder \in Folders(InventoryLayouts, MaxFiles, MaxRows)
  /\ collectors = <<>>
  /\ IdleFind /\ IdleStap /\ IdleAgg /\ IdleMain /\ returned = {}

InitStap ==
  /\ stap_folder \in Folders(StapLayouts, MaxFiles, MaxRows)
  /\ records = <<>> /\ stap_sum = NoSummary
  /\ IdleFind /\ IdleColl /\ IdleAgg /\ IdleMain /\ returned = {}

InitAgg ==
  /\ agg_tree \in AggregationTrees(Folders(AggregationLayouts, MaxFiles, MaxRows))
  /\ agg_collectors = <<CollectorA, CollectorB, CollectorC>>
  /\ issues = <<>>
  /\ IdleFind /\ IdleColl /\ IdleStap /\ IdleMain /\ returned = {}

SpecFind == InitFind /\ [][FindColumn]_vars
SpecColl == InitColl /\ [][ExtractCollectors]_vars
SpecStap == InitStap /\ [][ProcessStapStatus]_vars
SpecAgg == InitAgg /\ [][AnalyzeAggregationErrors]_vars

\* Both aggregators, each on its own folder.
InitAggregators == InitStap \/ InitAgg
NextAggregators == ProcessStapStatus \/ AnalyzeAggregationErrors
SpecAggregators == InitAggregators /\ [][NextAggregators]_vars

---------------------------------------------------------------------------
(* main(): what an earlier run may have left, and what the operator drops  *)
(* into the folders at the two prompts.                                    *)

REPORT_XLSX == "CM_report.xlsx"
REPORT_DOCX == "Relatorio_Executivo.docx"

InventoryOf(name, type) ==
  [columns |-> << <<"U", "n", "i", "t", " ", "N", "a", "m", "e">>, <<"U", "n", "i", "t", " ", "T", "y", "p", "e">> >>,
   rows |-> << <<Text(name), Text(type)>> >>]
StatusOf(host, status) ==
  [columns |-> << <<"S", "-", "T", "A", "P", " ", "H", "o", "s", "t">>, <<"S", "t", "a", "t", "u", "s">>, <<"R", "e", "v", "i", "s", "i", "o", "n">> >>,
   rows |-> << <<Text(host), Text(status), Text(<<"v", "1">>)>> >>]
ActivityOf(activity, status, date) ==
  [columns |-> << <<"A", "c", "t", "i", "v", "i", "t", "y", " ", "T", "y", "p", "e">>, <<"S", "t", "a", "t", "u", "s">>, <<"S", "t", "a", "r", "t", " ", "T", "i", "m", "e">> >>,
   rows |-> << <<Text(activity), Text(status), Text(date)>> >>]

\* Leftovers of an earlier run.
StaleInputs ==
  {File(FOLDER_CM, <<>>, "old_cm.csv", "old", InventoryOf(<<"B">>, <<"C", "o", "l", "l", "e", "c", "t", "o", "r">>)),
   File(FOLDER_STAP, <<>>, "old_stap.csv", "old", StatusOf(<<"h", "0">>, <<"D", "o", "w", "n">>)),
   File(FOLDER_AGGREGATION, CollectorB, "old_agg.csv", "old",
        ActivityOf(<<"P", "u", "r", "g", "e">>, <<"F", "a", "i", "l", "e", "d">>, <<"2", "0", "2", "3", "-", "1", "2", "-", "3", "1">>)),
   File(FOLDER_QUALITY, CollectorB, "old_quality.csv", "old", EmptyDf)}

StaleReports ==
  {File(FOLDER_OUTPUT, <<>>, REPORT_XLSX, "old", EmptyDf),
   File(FOLDER_OUTPUT, <<>>, REPORT_DOCX, "old", EmptyDf)}

PlacedInventories ==
  {InventoryOf(<<"A">>, <<"C", "o", "l", "l", "e", "c", "t", "o", "r">>), InventoryOf(<<"B">>, <<"C", "o", "l", "l", "e", "c", "t", "o", "r">>),
   InventoryOf(<<"X">>, <<"A", "g", "g", "r", "e", "g", "a", "t", "o", "r">>)}
PlacedStatuses == {StatusOf(<<"h", "1">>, <<"C", "o", "n", "n", "e", "c", "t", "e", "d">>)}
PlacedActivities == {ActivityOf(<<"P", "u", "r", "g", "e">>, <<"F", "a", "i", "l", "e", "d">>, <<"2", "0", "2", "4", "-", "0", "1", "-", "0", "2">>)}

PlacedNames == <<"in1.csv", "in2.csv", "in3.csv">>

\* The operator drops one more file into a folder.
Place(dir, sub, table) ==
  LET n == Cardinality({f \in Listing(disk, dir, sub) : f.run = "new"})
  IN /\ n < MaxPlaced
     /\ disk' = disk \cup {File(dir, sub, PlacedNames[n + 1], "new", table)}

\* A report written to out / name replaces the file of that name.
Written(files, name) ==
  {f \in files : ~(f.dir = FOLDER_OUTPUT /\ f.name = name)}
  \cup {File(FOLDER_OUTPUT, <<>>, name, "new", EmptyDf)}

\* The subfolders of the base folder that exist, with their tables in the
\* order iterdir() may yield them.
SubfolderTrees(files, dirs, base) ==
  LET cs == {d.sub : d \in {d \in dirs : d.dir = base}}
      listings(c) == {TablesOf(o) : o \in Orderings(Listing(files, base, c))}
  IN {t \in [cs -> UNION {listings(c) : c \in cs}] :
        \A c \in cs : t[c] \in listings(c)}

InitMain ==
  /\ pc = "start"
  /\ disk \in SUBSET (StaleInputs \cup StaleReports)
  /\ subdirs \in {{}, {[dir |-> FOLDER_AGGREGATION, sub |-> CollectorB],
                        [dir |-> FOLDER_QUALITY, sub |-> CollectorB]}}
  /\ \A f \in disk : f.sub # <<>> => [dir |-> f.dir, sub |-> f.sub] \in subdirs
  /\ docx_installed \in BOOLEAN
  /\ main_collectors = <<>> /\ reports = NoReports /\ log = <<>>
  /\ IdleFind /\ IdleColl /\ IdleStap /\ IdleAgg /\ returned = {}

engineVars == <<findVars, collVars, stapVars, aggVars, returned>>

\* main, steps 1 and 2: the four folders are cleaned and (re)created.
Cleanup ==
  /\ pc = "start"
  /\ disk' = clean_folder_contents(
               clean_folder_contents(
                 clean_folder_contents(
                   clean_folder_contents(disk, FOLDER_CM, FALSE),
                   FOLDER_STAP, FALSE),
                 FOLDER_AGGREGATION, TRUE),
               FOLDER_QUALITY, TRUE)
  /\ log' = Append(log, "clean_folder_contents")
  /\ pc' = "prompt1"
  /\ UNCHANGED <<subdirs, docx_installed, main_collectors, reports, engineVars>>

\* Prompt 1: the operator places the Central Management spreadsheet.
PlaceInventory ==
  /\ pc = "prompt1"
  /\ \E t \in PlacedInventories : Place(FOLDER_CM, <<>>, t)
  /\ UNCHANGED <<pc, subdirs, docx_installed, main_collectors, reports, log,
                 engineVars>>

\* main with the `return` after "No Collectors found." left out.
DiscoverCollectors_no_halt ==
  /\ pc = "prompt1"
  /\ \E o \in Orderings(Listing(disk, FOLDER_CM, <<>>)) :
       LET cs == extract_collectors(TablesOf(o))
       IN /\ main_collectors' = cs
          /\ subdirs' = subdirs \cup
               {[dir |-> d, sub |-> cs[i]] :
                  d \in {FOLDER_AGGREGATION, FOLDER_QUALITY}, i \in 1..Len(cs)}
          /\ log' = log \o <<"extract_collectors">> \o
                      [i \in 1..Len(cs) |-> "mkdir_collector"]
          /\ pc' = "prompt2"
  /\ UNCHANGED <<disk, docx_installed, reports, engineVars>>

\* main after ENTER at prompt 1: the collectors are extracted; none found
\* ends the run, else step 3 creates their subfolders.
DiscoverCollectors ==
  /\ pc = "prompt1"
  /\ \E o \in Orderings(Listing(disk, FOLDER_CM, <<>>)) :
       LET cs == extract_collectors(TablesOf(o))
       IN /\ main_collectors' = cs
          /\ IF cs = <<>>
             THEN /\ log' = Append(log, "extract_collectors")
                  /\ pc' = "halted"
                  /\ UNCHANGED subdirs
             ELSE /\ subdirs' = subdirs \cup
                       {[dir |-> d, sub |-> cs[i]] :
                          d \in {FOLDER_AGGREGATION, FOLDER_QUALITY},
                          i \in 1..Len(cs)}
                  /\ log' = log \o <<"extract_collectors">> \o
                              [i \in 1..Len(cs) |-> "mkdir_collector"]
                  /\ pc' = "prompt2"
  /\ UNCHANGED <<disk, docx_installed, reports, engineVars>>

\* Prompt 2: the operator places the STAP and aggregation exports.
PlaceStatus ==
  /\ pc = "prompt2"
  /\ \E t \in PlacedStatuses : Place(FOLDER_STAP, <<>>, t)
  /\ UNCHANGED <<pc, subdirs, docx_installed, main_collectors, reports, log,
                 engineVars>>

PlaceActivity ==
  /\ pc = "prompt2"
  /\ \E t \in PlacedActivities, i \in 1..Len(main_collectors) :
       Place(FOLDER_AGGREGATION, main_collectors[i], t)
  /\ UNCHANGED <<pc, subdirs, docx_installed, main_collectors, reports, log,
                 engineVars>>

\* main, step 4: both aggregators run on what the folders hold.
Process ==
  /\ pc = "prompt2"
  /\ \E o \in Orderings(Listing(disk, FOLDER_STAP, <<>>)),
        tree \in SubfolderTrees(disk, subdirs, FOLDER_AGGREGATION) :
       LET stap == process_stap_status(TablesOf(o))
       IN reports' = [stap_df |-> stap.df, stap_sum |-> stap.sum,
                      agg_issues |->
                        analyze_aggregation_errors(tree, main_collectors)]
  /\ log' = log \o <<"process_stap_status", "analyze_aggregation_errors">>
  /\ pc' = "write_excel"
  /\ UNCHANGED <<disk, subdirs, docx_installed, main_collectors, engineVars>>

\* main, step 5, Excel output: the workbook file is written; with no sheet
\* to write, closing the writer may raise and end the run.
WriteExcel ==
  /\ pc = "write_excel"
  /\ disk' = Written(disk, REPORT_XLSX)
  /\ log' = Append(log, "write_excel")
  /\ \/ pc' = "write_word"
     \/ reports.stap_df = <<>> /\ reports.agg_issues = <<>> /\ pc' = "crashed"
  /\ UNCHANGED <<subdirs, docx_installed, main_collectors, reports, engineVars>>

\* main, step 5, Word output: written only if python-docx was importable.
WriteWord ==
  /\ pc = "write_word"
  /\ IF docx_installed
     THEN disk' = Written(disk, REPORT_DOCX) /\ log' = Append(log, "write_word")
     ELSE UNCHANGED <<disk, log>>
  /\ pc' = "done"
  /\ UNCHANGED <<subdirs, docx_installed, main_collectors, reports, engineVars>>

NextMain ==
  \/ Cleanup \/ PlaceInventory \/ DiscoverCollectors
  \/ PlaceStatus \/ PlaceActivity \/ Process \/ WriteExcel \/ WriteWord

SpecMain == InitMain /\ [][NextMain]_vars

---------------------------------------------------------------------------
(* What the properties are stated with.                                    *)

\* The column name contains one of the aliases, case-insensitively.
Matches(name, kws) == \E k \in Range(kws) : Contains(k, Lower(name))

\* The first column, in declared order, that matches; 0 if none does.
FirstMatch(columns, kws) ==
  IF \E c \in DOMAIN columns : Matches(columns[c], kws)
  THEN CHOOSE c \in DOMAIN columns :
         /\ Matches(columns[c], kws)
         /\ \A d \in 1..(c - 1) : ~Matches(columns[d], kws)
  ELSE 0

PermsOf(s) == {[i \in 1..Len(s) |-> s[p[i]]] : p \in Permutations(1..Len(s))}

\* The trimmed text of the cell of a row under a column.
CellText(row, col) == Strip(PyStr(row[col]))

HasKeyword(kws, text) == \E k \in Range(kws) : Contains(k, Lower(text))

\* The cell came from a blank field of the file, or holds only whitespace.
BlankCell(cell) == cell.kind = "nan" \/ Strip(cell.text) = <<>>

Occurrences(s, x) == Cardinality({i \in DOMAIN s : s[i] = x})

---------------------------------------------------------------------------
(* C8: find_column returns the first column, in declared order, whose     *)
(* lower-cased name contains an alias; None exactly when no column does;   *)
(* the order of the alias list does not change the answer.                 *)
C8_FirstColumnWins ==
  "find_column" \in returned =>
    /\ found = 0 <=> ~\E c \in DOMAIN df_columns : Matches(df_columns[c], keywords)
    /\ found # 0 =>
         /\ found \in DOMAIN df_columns
         /\ Matches(df_columns[found], keywords)
         /\ \A d \in 1..(found - 1) : ~Matches(df_columns[d], keywords)
    /\ \A ks \in PermsOf(keywords) : find_column(df_columns, ks) = found

\* The first column matches only a later alias while a later column
\* matches the first alias.
C8_Witness ==
  /\ "find_column" \in returned
  /\ found = 1
  /\ Len(keywords) > 1
  /\ ~Contains(keywords[1], Lower(df_columns[1]))
  /\ \E c \in 2..Len(df_columns) : Contains(keywords[1], Lower(df_columns[c]))

---------------------------------------------------------------------------
(* C5: extract_collectors returns the duplicate-free ascending list of the *)
(* trimmed unit names of the rows whose unit type contains "collector" and *)
(* whose trimmed unit name is non-empty, over the files where both columns *)
(* resolve; the order of the files and of their rows does not matter.      *)
ExpectedCollectors(folder) ==
  UNION {LET df == folder[f]
             n == FirstMatch(df.columns, << <<"u", "n", "i", "t", " ", "n", "a", "m", "e">> >>)
             t == FirstMatch(df.columns, << <<"u", "n", "i", "t", " ", "t", "y", "p", "e">> >>)
         IN IF n = 0 \/ t = 0 THEN {}
            ELSE {CellText(df.rows[r], n) :
                    r \in {r \in DOMAIN df.rows :
                             /\ Contains(<<"c", "o", "l", "l", "e", "c", "t", "o", "r">>, Lower(PyStr(df.rows[r][t])))
                             /\ CellText(df.rows[r], n) # <<>>}} :
         f \in DOMAIN folder}

C5_SortedSetAnyOrder ==
  "extract_collectors" \in returned =>
    /\ Range(collectors) = ExpectedCollectors(cm_folder)
    /\ \A i \in 1..(Len(collectors) - 1) :
         StrLess(collectors[i], collectors[i + 1])
    /\ \A fs \in PermsOf(cm_folder) : extract_collectors(fs) = collectors
    /\ \A f \in DOMAIN cm_folder : \A rs \in PermsOf(cm_folder[f].rows) :
         extract_collectors([cm_folder EXCEPT ![f].rows = rs]) = collectors

\* "Collector B" is met before " Collector A ", in two files.
C5_Witness ==
  /\ "extract_collectors" \in returned
  /\ collectors = << <<"C", "o", "l", "l", "e", "c", "t", "o", "r", " ", "A">>, <<"C", "o", "l", "l", "e", "c", "t", "o", "r", " ", "B">> >>
  /\ collector_adds(cm_folder) = << <<"C", "o", "l", "l", "e", "c", "t", "o", "r", " ", "B">>, <<"C", "o", "l", "l", "e", "c", "t", "o", "r", " ", "A">> >>
  /\ Len(cm_folder) = 2
  /\ \E f \in DOMAIN cm_folder : \E r \in DOMAIN cm_folder[f].rows :
       PyStr(cm_folder[f].rows[r][1]) = <<" ", "C", "o", "l", "l", "e", "c", "t", "o", "r", " ", "A", " ">>

---------------------------------------------------------------------------
(* C1: a record of process_stap_status has is_active true iff the          *)
(* lower-cased trimmed status text of its row contains an active keyword;  *)
(* the records are those of the rows with a non-empty status text, in      *)
(* order.                                                                  *)
StatusTexts(folder) ==
  Concat([f \in DOMAIN folder |->
            LET df == folder[f]
                c == FirstMatch(df.columns, << <<"s", "t", "a", "t", "u", "s">> >>)
            IN IF c = 0 THEN <<>>
               ELSE [r \in DOMAIN df.rows |-> CellText(df.rows[r], c)]])

NonEmptyText(t) == t # <<>>

C1_ActiveIffKeyword ==
  "process_stap_status" \in returned =>
    LET texts == SelectSeq(StatusTexts(stap_folder), NonEmptyText)
    IN /\ Len(records) = Len(texts)
       /\ \A i \in DOMAIN records :
            /\ records[i].status = texts[i]
            /\ records[i].is_active <=> HasKeyword(ACTIVE_KEYWORDS, texts[i])

\* One record matches an active and an inactive keyword at once and is
\* active; another matches no active keyword and is not.
C1_Witness ==
  /\ "process_stap_status" \in returned
  /\ \E i, j \in DOMAIN records :
       /\ records[i].is_active
       /\ HasKeyword(INACTIVE_KEYWORDS, records[i].status)
       /\ ~records[j].is_active

---------------------------------------------------------------------------
(* C9: the summary counts the records by is_active: active and inactive    *)
(* add up to total, the number of records; all three are 0 without         *)
(* records.                                                                *)
C9_CountPartition ==
  "process_stap_status" \in returned =>
    /\ stap_sum.active = Cardinality({i \in DOMAIN records : records[i].is_active})
    /\ stap_sum.inactive = Cardinality({i \in DOMAIN records : ~records[i].is_active})
    /\ stap_sum.total = Len(records)
    /\ stap_sum.active + stap_sum.inactive = stap_sum.total
    /\ records = <<>> => stap_sum = [active |-> 0, inactive |-> 0, total |-> 0]

\* Records of both kinds were counted, read from two files.
C9_Witness ==
  /\ "process_stap_status" \in returned
  /\ stap_sum.active = 1 /\ stap_sum.inactive = 1 /\ stap_sum.total = 2
  /\ Len(stap_folder) = 2

---------------------------------------------------------------------------
(* C10: a row whose status is one of the inactive keywords, in any letter  *)
(* case, gets is_active = false and is counted as inactive, never as       *)
(* active.                                                                 *)
IsInactiveKeyword(text) == Lower(text) \in Range(INACTIVE_KEYWORDS)

C10_InactiveKeywordNeverActive ==
  "process_stap_status" \in returned =>
    LET named == {i \in DOMAIN records : IsInactiveKeyword(records[i].status)}
    IN /\ \A i \in named : ~records[i].is_active
       /\ stap_sum.inactive >= Cardinality(named)
       /\ stap_sum.active <= Len(records) - Cardinality(named)

---------------------------------------------------------------------------
(* C2: analyze_aggregation_errors emits an event for a row iff its trimmed *)
(* activity and status are non-empty and the lower-cased status contains   *)
(* no success keyword; the event carries the row's activity, status and    *)
(* date text and the collector of the subfolder the file is in.            *)
ExpectedEvents(tree, colls) ==
  UNION {UNION {LET df == tree[c][f]
                    a == FirstMatch(df.columns,
                           << <<"a", "c", "t", "i", "v", "i", "t", "y", " ", "t", "y", "p", "e">>, <<"a", "c", "t", "i", "v", "i", "t", "y">>, <<"p", "r", "o", "c", "e", "s", "s">> >>)
                    st == FirstMatch(df.columns,
                           << <<"s", "t", "a", "t", "u", "s">>, <<"e", "x", "e", "c", "u", "t", "i", "o", "n", " ", "s", "t", "a", "t", "u", "s">> >>)
                    d == FirstMatch(df.columns,
                           << <<"s", "t", "a", "r", "t", " ", "t", "i", "m", "e">>, <<"r", "u", "n", " ", "t", "i", "m", "e">>, <<"t", "i", "m", "e", "s", "t", "a", "m", "p">>, <<"d", "a", "t", "e">> >>)
                IN IF a = 0 \/ st = 0 THEN {}
                   ELSE {[collector |-> c,
                          activity |-> CellText(df.rows[r], a),
                          status |-> CellText(df.rows[r], st),
                          date |-> IF d = 0 THEN <<"U", "n", "d", "e", "f", ".", " ", "D", "a", "t", "e">>
                                   ELSE CellText(df.rows[r], d)] :
                           r \in {r \in DOMAIN df.rows :
                                    /\ CellText(df.rows[r], a) # <<>>
                                    /\ CellText(df.rows[r], st) # <<>>
                                    /\ ~HasKeyword(SUCCESS_KEYWORDS,
                                                   CellText(df.rows[r], st))}} :
                f \in DOMAIN tree[c]} :
         c \in Range(colls) \cap DOMAIN tree}

C2_FailureIffNotSuccess ==
  "analyze_aggregation_errors" \in returned =>
    /\ Range(issues) = ExpectedEvents(agg_tree, agg_collectors)
    /\ \A i \in DOMAIN issues : ~HasKeyword(SUCCESS_KEYWORDS, issues[i].status)

\* One table holds a failed row and a row whose status only contains a
\* success keyword; exactly the failed one is reported.
C2_Witness ==
  /\ "analyze_aggregation_errors" \in returned
  /\ Len(issues) = 1
  /\ issues[1].status = <<"F", "a", "i", "l", "e", "d">>
  /\ \E f \in DOMAIN agg_tree[issues[1].collector] :
       LET rows == agg_tree[issues[1].collector][f].rows
       IN /\ Len(rows) = 2
          /\ \E r \in DOMAIN rows : PyStr(rows[r][2]) = <<"C", "o", "m", "p", "l", "e", "t", "e", "d", " ", "O", "K">>

---------------------------------------------------------------------------
(* C4: the returned list is a permutation of the accumulated events, in    *)
(* descending order of (collector, date) compared as text.                 *)
C4_DescendingPermutation ==
  "analyze_aggregation_errors" \in returned =>
    LET acc == accumulated_issues(agg_tree, agg_collectors)
    IN /\ Len(issues) = Len(acc)
       /\ Range(acc) = ExpectedEvents(agg_tree, agg_collectors)
       /\ \A e \in Range(acc) \cup Range(issues) :
            Occurrences(issues, e) = Occurrences(acc, e)
       /\ \A i \in 1..(Len(issues) - 1) :
            \/ StrLess(issues[i + 1].collector, issues[i].collector)
            \/ /\ issues[i + 1].collector = issues[i].collector
               /\ ~StrLess(issues[i].date, issues[i + 1].date)

\* A and B each have one failure with the same date; B's comes first.
C4_Witness ==
  /\ "analyze_aggregation_errors" \in returned
  /\ Len(issues) = 2
  /\ issues[1].collector = CollectorB /\ issues[2].collector = CollectorA
  /\ issues[1].date = issues[2].date

---------------------------------------------------------------------------
(* C3: a row whose status cell is empty (blank in the file, or whitespace  *)
(* only) adds nothing to the output of process_stap_status, and a row      *)
(* whose status or activity cell is empty adds nothing to the output of    *)
(* analyze_aggregation_errors.                                             *)
WithoutBlank(df, cols) ==
  LET Filled(row) == \A c \in cols : c # 0 => ~BlankCell(row[c])
  IN [df EXCEPT !.rows = SelectSeq(df.rows, Filled)]

StapWithoutBlank(folder) ==
  [f \in DOMAIN folder |->
     WithoutBlank(folder[f], {FirstMatch(folder[f].columns, << <<"s", "t", "a", "t", "u", "s">> >>)})]

AggWithoutBlank(tree) ==
  [c \in DOMAIN tree |->
     [f \in DOMAIN tree[c] |->
        WithoutBlank(tree[c][f],
          {FirstMatch(tree[c][f].columns, << <<"s", "t", "a", "t", "u", "s">>, <<"e", "x", "e", "c", "u", "t", "i", "o", "n", " ", "s", "t", "a", "t", "u", "s">> >>),
           FirstMatch(tree[c][f].columns,
                      << <<"a", "c", "t", "i", "v", "i", "t", "y", " ", "t", "y", "p", "e">>, <<"a", "c", "t", "i", "v", "i", "t", "y">>, <<"p", "r", "o", "c", "e", "s", "s">> >>)})]]

C3_BlankRowsNeverEmitted ==
  /\ "process_stap_status" \in returned =>
       records = stap_records(StapWithoutBlank(stap_folder))
  /\ "analyze_aggregation_errors" \in returned =>
       issues = analyze_aggregation_errors(AggWithoutBlank(agg_tree), agg_collectors)

---------------------------------------------------------------------------
(* C6: in a run of main the collectors are extracted before either         *)
(* aggregator starts, and with no collector found the run halts: no        *)
(* aggregator is called, no collector subfolder is created, no report is   *)
(* written.                                                                *)
AfterDiscovery ==
  {"mkdir_collector", "process_stap_status", "analyze_aggregation_errors",
   "write_excel", "write_word"}

C6_DiscoveryGatesRun ==
  /\ \A i \in DOMAIN log :
       log[i] \in AfterDiscovery =>
         \E j \in 1..(i - 1) : log[j] = "extract_collectors"
  /\ ("extract_collectors" \in Range(log) /\ main_collectors = <<>>) =>
       /\ pc = "halted"
       /\ Range(log) \cap AfterDiscovery = {}
       /\ reports = NoReports
       /\ \A f \in disk : f.dir = FOLDER_OUTPUT => f.run = "old"

\* The operator placed an inventory that names no collector; the run
\* stopped right after the extraction.
C6_Witness ==
  /\ pc = "halted"
  /\ \E f \in Listing(disk, FOLDER_CM, <<>>) : f.run = "new"
  /\ log = <<"clean_folder_contents", "extract_collectors">>

---------------------------------------------------------------------------
(* C7: when main has written its first report file no file of an earlier   *)
(* run is left in the working folders, their collector subfolders or the   *)
(* output folder, and once the run is complete every report file in the    *)
(* output folder is one this run wrote.                                    *)
C7_StalePurgedBeforeWrite ==
  /\ (pc = "write_word" /\ log[Len(log)] = "write_excel") =>
       \A f \in disk : f.run # "old"
  /\ pc = "done" =>
       \A f \in Listing(disk, FOLDER_OUTPUT, <<>>) : f.run = "new"

====
